---------------------------- MODULE Spec2Model ----------------------------
(***************************************************************************)
(* Model of the SSE broker (internal/api, SSEBroker) and of the event      *)
(* stream handler (Server.handleEvents) of gastown-viewer-intent.          *)
(*                                                                         *)
(* Go constructs and how they are modelled:                                *)
(*  - b.register / b.unregister are unbuffered channels: a send completes  *)
(*    in the same step in which the loop's select receives it (rendezvous).*)
(*  - b.broadcast and every client channel are buffered channels: a        *)
(*    sequence with a capacity; a blocking send is an action whose guard   *)
(*    is "there is room".                                                  *)
(*  - b.mu: every critical section of the code is a single action, so the  *)
(*    lock is never held between two steps of the model.                   *)
(*  - select picks any ready case: every ready case is an enabled action.  *)
(*  - heartbeatTicker.C and ctx.Done() are fed by the environment: a tick   *)
(*    or a cancellation happens in the step in which the select takes it.  *)
(*  - send on a closed channel and close of a closed channel panic: the    *)
(*    variable panicked records the panic and stops every process.         *)
(***************************************************************************)
EXTENDS Integers, Sequences, FiniteSets, TLC

\* ------------------------------------------------------------------ bounds
NumHandlers == 2       \* concurrent GET /api/v1/events requests
MaxBroadcasts == 2     \* Broadcast calls made by publishers
MaxTicks == 3          \* heartbeat ticks taken by the loop
TicksWithPublishers == 1 \* ticks in the specifications that have publishers
MaxExtraUnsub == 2     \* Unsubscribe calls made besides the handlers' own
ClientBufCap == 2      \* stands for the 10 slots of make(chan []byte, 10)
BroadcastCap == 2      \* stands for the 100 slots of make(chan []byte, 100)

\* ------------------------------------------------------------------ values
Handlers == 1..NumHandlers
\* Channel h is the channel made by handler h's Subscribe call; StrayChan is
\* a channel made by a caller and never passed through Subscribe.
StrayChan == 0
Chans == Handlers \cup {StrayChan}
NoChan == -1

\* A message as Broadcast formats it: "event: <type>\ndata: <json>\n\n".
\* id tags the payload so that two broadcasts are told apart.
EventMsg(n) == [type |-> "issue_created", id |-> n]
HeartbeatMsg(n) == [type |-> "heartbeat", id |-> n]
ConnectedChunk == [type |-> "connected", id |-> 0]
ErrorChunk == [type |-> "SSE_NOT_SUPPORTED", id |-> 0]

VARIABLES
    clients,      \* b.clients: the live set
    broadcast,    \* b.broadcast: queue of formatted messages
    done,         \* b.done is closed
    chanBuf,      \* chanBuf[c]: messages buffered in client channel c
    chanClosed,   \* chanClosed[c]: client channel c is closed
    loopPc,       \* position of the Start goroutine
    loopArg,      \* the channel the loop has just received from a caller
    stopPc,       \* position of the goroutine calling Stop
    hPc,          \* hPc[h]: position of handleEvents request h
    resp,         \* resp[h]: chunks written to the response of request h
    xPending,     \* channel of the extra Unsubscribe call blocked on its send
    panicked,     \* "none" or the runtime panic that stopped the process
    \* ---- history variables (not program state)
    nBroadcasts,  \* Broadcast calls made so far
    nTicks,       \* ticks taken by the loop so far
    nExtra,       \* extra Unsubscribe calls made so far
    marshalErrs,  \* "SSE marshal error" lines logged by Broadcast so far
    accepted,     \* every message accepted into b.broadcast, in order, with
                  \* the live set and the returned Subscribe calls at that time
    sent,         \* sent[c]: every message ever placed in channel c, in order
    dropped,      \* dropped[c]: messages skipped for c because c was full
    unsubDone,    \* channels for which some Unsubscribe call has returned
    closes,       \* closes[c]: the functions that have called close(c), in
                  \* order ("Start" for the loop, "Stop")
    \* ---- one GET /api/v1/graph request (Server.handleGraph, Adapter.Graph)
    gPc,          \* position of the request
    executed,     \* outcome of each executor.Execute call of Graph so far
    bdIssues,     \* what ParseIssueList made of the "list --json" output
    blockedIssues, \* what ParseBlockedList made of the "blocked --json" output
    graph,        \* the model.Graph value under construction
    nodeMap,      \* nodeMap of Graph: the identifiers of the nodes
    edgeSet,      \* edgeSet of Graph: the edge keys seen
    graphRet,     \* what Graph returned: the graph pointer and the error
    httpResp,     \* the responses written to the request's ResponseWriter
    \* ---- one call of Graph.ToDOT
    dotOut        \* the node lines ToDOT wrote, one sequence of characters each

sseVars == <<clients, broadcast, done, chanBuf, chanClosed, loopPc, loopArg,
             stopPc, hPc, resp, xPending, panicked, nBroadcasts, nTicks,
             nExtra, marshalErrs, accepted, sent, dropped, unsubDone,
             closes>>
graphVars == <<gPc, executed, bdIssues, blockedIssues, graph, nodeMap,
               edgeSet, graphRet, httpResp>>
reqVars == <<graphVars, dotOut>>

vars == <<sseVars, reqVars>>

brokerVars == <<clients, broadcast, done, chanBuf, chanClosed>>
loopVars == <<loopPc, loopArg>>
handlerVars == <<hPc, resp>>
countVars == <<nBroadcasts, nTicks, nExtra, marshalErrs>>
histVars == <<accepted, sent, dropped, unsubDone, closes>>

Running == panicked = "none"

\* ------------------------------------------------------------ package model
\* The values of EdgeType.
EdgeTypeBlocks == "blocks"
EdgeTypeUnknown == "unknown"
EdgeTypes ==
    {"blocks", "blocked_by", "parent", "child", "waits_for", "waited_by",
     "conditional_blocks", "relates_to", "duplicates", "mentions",
     "derived_from", "supersedes", "implements", "unknown"}

\* NewGraph(): no nodes, no edges, zero statistics.
NewGraph ==
    [Nodes |-> <<>>, Edges |-> <<>>,
     Stats |-> [NodeCount |-> 0, EdgeCount |-> 0, MaxDepth |-> 0]]

\* g.Nodes = append(g.Nodes, node); g.Stats.NodeCount++
AddNode(g, node) ==
    [g EXCEPT !.Nodes = Append(@, node), !.Stats.NodeCount = @ + 1]

\* An AddEdge that appends the edge without counting it.
AddEdge_NotCounted(g, edge) == [g EXCEPT !.Edges = Append(@, edge)]

\* g.Edges = append(g.Edges, edge); g.Stats.EdgeCount++
AddEdge(g, edge) ==
    [g EXCEPT !.Edges = Append(@, edge), !.Stats.EdgeCount = @ + 1]

\* The state of the process before a graph request and before a ToDOT call.
NoRequest ==
    /\ gPc = "idle"
    /\ executed = [list |-> "none", blocked |-> "none"]
    /\ bdIssues = <<>>
    /\ blockedIssues = <<>>
    /\ graph = NewGraph
    /\ nodeMap = {}
    /\ edgeSet = {}
    /\ graphRet = [graph |-> "nil", err |-> "nil"]
    /\ httpResp = <<>>
    /\ dotOut = <<>>

\* ------------------------------------------------------------ NewSSEBroker
Init ==
    /\ clients = {}
    /\ broadcast = <<>>
    /\ done = FALSE
    /\ chanBuf = [c \in Chans |-> <<>>]
    /\ chanClosed = [c \in Chans |-> FALSE]
    /\ loopPc = "select"
    /\ loopArg = NoChan
    /\ stopPc = "idle"
    /\ hPc = [h \in Handlers |-> "init"]
    /\ resp = [h \in Handlers |-> <<>>]
    /\ xPending = NoChan
    /\ panicked = "none"
    /\ nBroadcasts = 0
    /\ nTicks = 0
    /\ nExtra = 0
    /\ marshalErrs = 0
    /\ accepted = <<>>
    /\ sent = [c \in Chans |-> <<>>]
    /\ dropped = [c \in Chans |-> {}]
    /\ unsubDone = {}
    /\ closes = [c \in Chans |-> <<>>]
    /\ NoRequest

\* ------------------------------------------------------- SSEBroker.Start
\* case <-b.done: return (the deferred heartbeatTicker.Stop() runs).
StartDone ==
    /\ Running
    /\ loopPc = "select"
    /\ done
    /\ loopPc' = "exited"
    /\ UNCHANGED <<reqVars, brokerVars, loopArg, stopPc, handlerVars, xPending,
                   panicked, countVars, histVars>>

\* case client := <-b.register, meeting the send in Subscribe of handler h:
\* Subscribe returns to the handler in this step.
StartRecvRegister(h) ==
    /\ Running
    /\ loopPc = "select"
    /\ hPc[h] = "subscribing"
    /\ loopPc' = "register"
    /\ loopArg' = h
    /\ hPc' = [hPc EXCEPT ![h] = "subscribed"]
    /\ UNCHANGED <<reqVars, brokerVars, stopPc, resp, xPending, panicked, countVars,
                   histVars>>

\* The register case losing the registration.
AddClient_Lost(cs, c) == cs

\* b.clients[client] = true
AddClient(cs, c) == cs \cup {c}

\* b.mu.Lock(); b.clients[client] = true; b.mu.Unlock()
StartRegister ==
    /\ Running
    /\ loopPc = "register"
    /\ clients' = AddClient(clients, loopArg)
    /\ loopPc' = "select"
    /\ loopArg' = NoChan
    /\ UNCHANGED <<reqVars, broadcast, done, chanBuf, chanClosed, stopPc, handlerVars,
                   xPending, panicked, countVars, histVars>>

\* case client := <-b.unregister, meeting the send of handler h's deferred
\* Unsubscribe: Unsubscribe returns and the handler ends.
StartRecvUnregisterHandler(h) ==
    /\ Running
    /\ loopPc = "select"
    /\ hPc[h] = "unsubscribing"
    /\ loopPc' = "unregister"
    /\ loopArg' = h
    /\ hPc' = [hPc EXCEPT ![h] = "done"]
    /\ unsubDone' = unsubDone \cup {h}
    /\ UNCHANGED <<reqVars, brokerVars, stopPc, resp, xPending, panicked, countVars,
                   accepted, sent, dropped, closes>>

\* case client := <-b.unregister, meeting the send of an Unsubscribe call
\* made by another caller.
StartRecvUnregisterCaller ==
    /\ Running
    /\ loopPc = "select"
    /\ xPending # NoChan
    /\ loopPc' = "unregister"
    /\ loopArg' = xPending
    /\ xPending' = NoChan
    /\ unsubDone' = unsubDone \cup {xPending}
    /\ UNCHANGED <<reqVars, brokerVars, stopPc, handlerVars, panicked, countVars,
                   accepted, sent, dropped, closes>>

\* close(c) panics when c is already closed.
ClosePanics(cl, c) == cl[c]

\* The unregister case without its delete.
DeleteClient_Missing(cs, c) == cs

\* delete(b.clients, client)
DeleteClient(cs, c) == cs \ {c}

\* b.mu.Lock(); if _, ok := b.clients[client]; ok { delete; close };
\* b.mu.Unlock()
StartUnregister ==
    /\ Running
    /\ loopPc = "unregister"
    /\ IF loopArg \in clients
       THEN /\ clients' = DeleteClient(clients, loopArg)
            /\ closes' = [closes EXCEPT ![loopArg] = Append(@, "Start")]
            /\ IF ClosePanics(chanClosed, loopArg)
               THEN /\ panicked' = "close of closed channel"
                    /\ UNCHANGED chanClosed
               ELSE /\ chanClosed' = [chanClosed EXCEPT ![loopArg] = TRUE]
                    /\ UNCHANGED panicked
       ELSE UNCHANGED <<clients, chanClosed, panicked, closes>>
    /\ loopPc' = "select"
    /\ loopArg' = NoChan
    /\ UNCHANGED <<reqVars, broadcast, done, chanBuf, stopPc, handlerVars, xPending,
                   countVars, accepted, sent, dropped, unsubDone>>

\* select { case client <- msg: default: } on one client channel.
HasRoom(buf) == Len(buf) < ClientBufCap
\* A send that makes room by evicting the oldest buffered message.
TrySend_DropOldest(buf, m) ==
    IF HasRoom(buf) THEN Append(buf, m) ELSE Append(Tail(buf), m)

TrySend(buf, m) == IF HasRoom(buf) THEN Append(buf, m) ELSE buf

\* A receive that takes the newest message instead of the oldest.
ChanRecv_Newest(q) == <<q[Len(q)], SubSeq(q, 1, Len(q) - 1)>>

\* msg := <-ch on a buffered channel: the oldest message and the rest.
ChanRecv(q) == <<Head(q), Tail(q)>>

\* A range that stops after its first client.
RangeClients_FirstOnly(cs) ==
    IF cs = {} THEN {} ELSE {CHOOSE c \in cs : TRUE}

\* for client := range b.clients: the channels the range visits.
RangeClients(cs) == cs

\* The range over b.clients sending m to the channels in targets.
FanOut(m, targets) ==
    /\ chanBuf' = [c \in Chans |->
                     IF c \in targets THEN TrySend(chanBuf[c], m)
                                      ELSE chanBuf[c]]
    /\ sent' = [c \in Chans |->
                  IF c \in targets /\ HasRoom(chanBuf[c])
                  THEN Append(sent[c], m) ELSE sent[c]]
    /\ dropped' = [c \in Chans |->
                     IF c \in targets /\ ~HasRoom(chanBuf[c])
                     THEN dropped[c] \cup {m} ELSE dropped[c]]

\* case msg := <-b.broadcast: b.mu.RLock(); for client := range b.clients
\* { non-blocking send }; b.mu.RUnlock().  No step of the case waits, the
\* sends touch one channel each and each handler reads only its own channel,
\* so the case is one step.  A send on a closed channel panics after the
\* sends to some of the open clients.
StartBroadcast ==
    /\ Running
    /\ loopPc = "select"
    /\ broadcast # <<>>
    /\ broadcast' = ChanRecv(broadcast)[2]
    /\ LET m == ChanRecv(broadcast)[1]
           targets == RangeClients(clients)
           closedOnes == {c \in targets : chanClosed[c]}
       IN IF closedOnes = {}
          THEN /\ FanOut(m, targets)
               /\ UNCHANGED panicked
          ELSE /\ panicked' = "send on closed channel"
               /\ \E before \in SUBSET (targets \ closedOnes) :
                    FanOut(m, before)
    /\ UNCHANGED <<reqVars, clients, done, chanClosed, loopVars, stopPc, handlerVars,
                   xPending, countVars, accepted, unsubDone, closes>>

\* Handler h's call of Subscribe has returned.
SubscribeReturned(h) ==
    hPc[h] \in {"subscribed", "listening", "unsubscribing", "done"}

\* The entry the history keeps for a message accepted into b.broadcast.
Accept(m) ==
    [msg |-> m, live |-> clients,
     returned |-> {h \in Handlers : SubscribeReturned(h)}]

\* time.NewTicker(30 * time.Second): the period is far longer than the loop
\* needs to drain its queue, so the next tick arrives only after the
\* heartbeat of the previous one has left the loop.
HeartbeatInFlight ==
    \/ loopPc = "heartbeat"
    \/ \E i \in 1..Len(broadcast) : broadcast[i].type = "heartbeat"

\* case <-heartbeatTicker.C
StartRecvTick ==
    /\ Running
    /\ loopPc = "select"
    /\ nTicks < MaxTicks
    /\ ~HeartbeatInFlight
    /\ nTicks' = nTicks + 1
    /\ loopPc' = "heartbeat"
    /\ UNCHANGED <<reqVars, brokerVars, loopArg, stopPc, handlerVars, xPending,
                   panicked, nBroadcasts, nExtra, marshalErrs, histVars>>

\* A tick handled without broadcasting anything.
sendHeartbeat_NotSent ==
    /\ Running
    /\ loopPc = "heartbeat"
    /\ loopPc' = "select"
    /\ UNCHANGED <<reqVars, brokerVars, loopArg, stopPc, handlerVars, xPending,
                   panicked, countVars, histVars>>

\* b.sendHeartbeat(): b.Broadcast(model.NewHeartbeat()), whose send on
\* b.broadcast waits while the queue is full.
sendHeartbeat ==
    /\ Running
    /\ loopPc = "heartbeat"
    /\ Len(broadcast) < BroadcastCap
    /\ broadcast' = Append(broadcast, HeartbeatMsg(nTicks))
    /\ accepted' = Append(accepted, Accept(HeartbeatMsg(nTicks)))
    /\ loopPc' = "select"
    /\ UNCHANGED <<reqVars, clients, done, chanBuf, chanClosed, loopArg, stopPc,
                   handlerVars, xPending, panicked, countVars, sent, dropped,
                   unsubDone, closes>>

\* -------------------------------------------------------- SSEBroker.Stop
\* close(b.done)
StopSignal ==
    /\ Running
    /\ stopPc = "idle"
    /\ done' = TRUE
    /\ stopPc' = "locking"
    /\ UNCHANGED <<reqVars, clients, broadcast, chanBuf, chanClosed, loopVars,
                   handlerVars, xPending, panicked, countVars, histVars>>

\* A Stop that leaves the map it has ranged over in place.
ClearClients_Kept(cs) == cs

\* b.clients = make(map[chan []byte]bool)
ClearClients(cs) == {}

\* b.mu.Lock(); for client := range b.clients { close(client) };
\* b.clients = make(map[chan []byte]bool); b.mu.Unlock().  The range panics
\* at the first closed channel it meets.
StopCloseAll ==
    /\ Running
    /\ stopPc = "locking"
    /\ IF \E c \in clients : ClosePanics(chanClosed, c)
       THEN /\ panicked' = "close of closed channel"
            /\ \E c \in {d \in clients : ClosePanics(chanClosed, d)} :
                 closes' = [closes EXCEPT ![c] = Append(@, "Stop")]
            /\ UNCHANGED <<clients, chanClosed>>
       ELSE /\ chanClosed' = [c \in Chans |-> chanClosed[c] \/ c \in clients]
            /\ closes' = [c \in Chans |->
                            IF c \in clients THEN Append(closes[c], "Stop")
                                             ELSE closes[c]]
            /\ clients' = ClearClients(clients)
            /\ UNCHANGED panicked
    /\ stopPc' = "returned"
    /\ UNCHANGED <<reqVars, broadcast, done, chanBuf, loopVars, handlerVars, xPending,
                   countVars, accepted, sent, dropped, unsubDone>>

\* --------------------------------------------------- SSEBroker.Broadcast
\* A marshal error that still enqueues a message.
MarshalFailed_Enqueues(q, n) == Append(q, EventMsg(n))

\* data, err := json.Marshal(event); if err != nil { log.Printf(...); return }
\* the queue is left as it was.
MarshalFailed(q, n) == q

\* A call by a publisher (NotifyIssueCreated, NotifyIssueUpdated) with any
\* payload: json.Marshal fails and the call logs and returns, or
\* fmt.Sprintf formats the message and the send b.broadcast <- msg waits for
\* room.  The function has no result.
Broadcast ==
    /\ Running
    /\ nBroadcasts + marshalErrs < MaxBroadcasts
    /\ \E serializable \in BOOLEAN :
         IF serializable
         THEN /\ Len(broadcast) < BroadcastCap
              /\ nBroadcasts' = nBroadcasts + 1
              /\ broadcast' = Append(broadcast, EventMsg(nBroadcasts + 1))
              /\ accepted' = Append(accepted, Accept(EventMsg(nBroadcasts + 1)))
              /\ UNCHANGED marshalErrs
         ELSE /\ marshalErrs' = marshalErrs + 1
              /\ broadcast' = MarshalFailed(broadcast, nBroadcasts + 1)
              /\ UNCHANGED <<nBroadcasts, accepted>>
    /\ UNCHANGED <<reqVars, clients, done, chanBuf, chanClosed, loopVars, stopPc,
                   handlerVars, xPending, panicked, nTicks, nExtra, sent,
                   dropped, unsubDone, closes>>

\* --------------------------------------------------- Server.handleEvents
\* flusher, ok := w.(http.Flusher): without streaming support the error is
\* written and the handler returns; otherwise the headers are set and
\* Subscribe makes the channel and starts its send on b.register.
HandleEventsStart(h) ==
    /\ Running
    /\ hPc[h] = "init"
    /\ \E ok \in BOOLEAN :
         IF ok
         THEN /\ hPc' = [hPc EXCEPT ![h] = "subscribing"]
              /\ UNCHANGED resp
         ELSE /\ hPc' = [hPc EXCEPT ![h] = "failed"]
              /\ resp' = [resp EXCEPT ![h] = <<ErrorChunk>>]
    /\ UNCHANGED <<reqVars, brokerVars, loopVars, stopPc, xPending, panicked,
                   countVars, histVars>>

\* A handler that enters its loop without writing the connected event.
WriteConnected_Skipped(h) ==
    /\ Running
    /\ hPc[h] = "subscribed"
    /\ hPc' = [hPc EXCEPT ![h] = "listening"]
    /\ UNCHANGED <<reqVars, brokerVars, loopVars, stopPc, resp, xPending, panicked,
                   countVars, histVars>>

\* fmt.Fprintf(w, "event: connected..."); flusher.Flush()
WriteConnected(h) ==
    /\ Running
    /\ hPc[h] = "subscribed"
    /\ resp' = [resp EXCEPT ![h] = Append(resp[h], ConnectedChunk)]
    /\ hPc' = [hPc EXCEPT ![h] = "listening"]
    /\ UNCHANGED <<reqVars, brokerVars, loopVars, stopPc, xPending, panicked,
                   countVars, histVars>>

\* case <-ctx.Done(): return, once the request context is cancelled; the
\* deferred Unsubscribe starts its send.
HandlerCtxDone(h) ==
    /\ Running
    /\ hPc[h] = "listening"
    /\ hPc' = [hPc EXCEPT ![h] = "unsubscribing"]
    /\ UNCHANGED <<reqVars, brokerVars, loopVars, stopPc, resp, xPending, panicked,
                   countVars, histVars>>

\* case msg, ok := <-client with ok: w.Write(msg); flusher.Flush().  A closed
\* channel still yields its buffered messages.
HandlerRecv(h) ==
    /\ Running
    /\ hPc[h] = "listening"
    /\ chanBuf[h] # <<>>
    /\ resp' = [resp EXCEPT ![h] = Append(resp[h], ChanRecv(chanBuf[h])[1])]
    /\ chanBuf' = [chanBuf EXCEPT ![h] = ChanRecv(chanBuf[h])[2]]
    /\ UNCHANGED <<reqVars, clients, broadcast, done, chanClosed, loopVars, stopPc,
                   hPc, xPending, panicked, countVars, histVars>>

\* case msg, ok := <-client with !ok: return; the deferred Unsubscribe
\* starts its send.
HandlerChanClosed(h) ==
    /\ Running
    /\ hPc[h] = "listening"
    /\ chanBuf[h] = <<>>
    /\ chanClosed[h]
    /\ hPc' = [hPc EXCEPT ![h] = "unsubscribing"]
    /\ UNCHANGED <<reqVars, brokerVars, loopVars, stopPc, resp, xPending, panicked,
                   countVars, histVars>>

\* ------------------------------------------------- SSEBroker.Unsubscribe
\* A call Unsubscribe(c) by a caller other than a handler's defer, on any
\* channel it can hold (one it made itself or one Subscribe has returned):
\* b.unregister <- client starts and waits for the loop.
UnsubscribeCall(c) ==
    /\ Running
    /\ IF c \in Handlers THEN SubscribeReturned(c) ELSE c = StrayChan
    /\ nExtra < MaxExtraUnsub
    /\ xPending = NoChan
    /\ xPending' = c
    /\ nExtra' = nExtra + 1
    /\ UNCHANGED <<reqVars, brokerVars, loopVars, stopPc, handlerVars, panicked,
                   nBroadcasts, nTicks, marshalErrs, histVars>>

\* ---------------------------------------------------------- specifications
\* The steps of the Start goroutine on client registrations and shutdown.
LoopControlStep ==
    \/ StartDone
    \/ \E h \in Handlers : StartRecvRegister(h)
    \/ StartRegister
    \/ \E h \in Handlers : StartRecvUnregisterHandler(h)
    \/ StartUnregister

\* The steps of request h that do not read a message.
HandlerControlStep(h) ==
    \/ HandleEventsStart(h)
    \/ WriteConnected(h)
    \/ HandlerCtxDone(h)
    \/ HandlerChanClosed(h)

HandlerStep(h) ==
    \/ HandlerControlStep(h)
    \/ HandlerRecv(h)

\* The server: the loop, the event-stream requests, publishers, the ticker
\* and one call of Stop.
Next ==
    \/ LoopControlStep
    \/ StartBroadcast
    \/ StartRecvTick /\ nTicks < TicksWithPublishers
    \/ sendHeartbeat
    \/ \E h \in Handlers : HandlerStep(h)
    \/ Broadcast
    \/ StopSignal
    \/ StopCloseAll

Spec == Init /\ [][Next]_vars

\* The broker's API under callers that also call Unsubscribe on channels that
\* are not registered; no messages are published.
NextApi ==
    \/ LoopControlStep
    \/ StartRecvUnregisterCaller
    \/ \E h \in Handlers : HandlerControlStep(h)
    \/ \E c \in Chans : UnsubscribeCall(c)
    \/ StopSignal
    \/ StopCloseAll

SpecApi == Init /\ [][NextApi]_vars

\* The server with the loop running and no publisher: only heartbeats are
\* broadcast and Stop is not called.  The Start goroutine is scheduled
\* whenever it can run: it finishes the case it has taken, a send with room
\* completes, and its select takes a case that stays ready (Go picks
\* uniformly among the ready cases).
NextHeartbeat ==
    \/ \E h \in Handlers : StartRecvRegister(h)
    \/ StartRegister
    \/ \E h \in Handlers : StartRecvUnregisterHandler(h)
    \/ StartUnregister
    \/ StartBroadcast
    \/ StartRecvTick
    \/ sendHeartbeat
    \/ \E h \in Handlers : HandleEventsStart(h)
    \/ \E h \in Handlers : WriteConnected(h)
    \/ \E h \in Handlers : HandlerCtxDone(h)
    \/ \E h \in Handlers : HandlerRecv(h)

SpecHeartbeat ==
    /\ Init
    /\ [][NextHeartbeat]_vars
    /\ WF_vars(StartRegister)
    /\ WF_vars(StartUnregister)
    /\ WF_vars(StartBroadcast)
    /\ WF_vars(sendHeartbeat)

\* ------------------------------------------------- the bd CLI's answers
MaxIssues == 2         \* issues in the answer to "list --json"
MaxRels == 2           \* relationship entries over all issues of that answer
MaxBlocked == 1        \* issues in the answer to "blocked --json"
MaxBlockers == 1       \* blocked_by entries of an issue of that answer

IssueIds == {"A", "B"}      \* identifiers the listed issues can have
DanglingId == "Z"           \* an identifier no listed issue has
RefIds == IssueIds \cup {DanglingId}
\* dependency_type strings of the answers: two that mapDepTypeToEdgeType
\* knows and one it does not.
DepTypes == {"blocks", "parent-child", "unknown"}

SeqsUpTo(S, n) == UNION {[1..k -> S] : k \in 0..n}

\* One relationship entry of the issue with identifier owner: an element of
\* its dependencies, of its dependents or of its blocked_by.
Rels ==
    [src : {"dependencies", "dependents"}, owner : IssueIds, id : RefIds,
     type : DepTypes]
    \cup [src : {"blocked_by"}, owner : IssueIds, id : RefIds,
          type : {"blocks"}]

\* The entries of rels that belong to list src of issue id, in their order.
EntriesOf(rels, src, id) ==
    SelectSeq(rels, LAMBDA r : r.src = src /\ r.owner = id)

DepList(q) == [k \in 1..Len(q) |-> [ID |-> q[k].id, DepType |-> q[k].type]]
IdList(q) == [k \in 1..Len(q) |-> q[k].id]

\* An issue record as ParseIssueList returns it (the fields Graph reads).
BdIssue(id, rels) ==
    [ID |-> id,
     Dependencies |-> DepList(EntriesOf(rels, "dependencies", id)),
     Dependents |-> DepList(EntriesOf(rels, "dependents", id)),
     BlockedBy |-> IdList(EntriesOf(rels, "blocked_by", id))]

\* The issue lists "list --json" can parse to.
ListAnswers ==
    {[k \in 1..Len(ids) |-> BdIssue(ids[k], rels)] :
        ids \in SeqsUpTo(IssueIds, MaxIssues), rels \in SeqsUpTo(Rels, MaxRels)}

\* The lists "blocked --json" can parse to.
BlockedAnswers ==
    SeqsUpTo([ID : RefIds, BlockedBy : SeqsUpTo(RefIds, MaxBlockers)],
             MaxBlocked)

\* The errors executor.Execute returns, by the class the boundary layer
\* gives them.
ExecErrors == {"bd_not_found", "not_initialized", "not_found", "other"}

\* ------------------------------------------------------- CLIAdapter.Graph
\* A lookup that sends every unlisted string to EdgeTypeUnknown.
mapDepTypeToEdgeType_Unknown(depType) ==
    IF depType \in EdgeTypes THEN depType ELSE EdgeTypeUnknown

\* The switch of mapDepTypeToEdgeType.
mapDepTypeToEdgeType(depType) ==
    CASE depType = "blocks" -> "blocks"
      [] depType = "blocked_by" -> "blocked_by"
      [] depType \in {"parent-child", "parent"} -> "parent"
      [] depType = "child" -> "child"
      [] depType = "waits_for" -> "waits_for"
      [] depType = "waited_by" -> "waited_by"
      [] depType = "conditional_blocks" -> "conditional_blocks"
      [] depType = "relates_to" -> "relates_to"
      [] depType = "duplicates" -> "duplicates"
      [] depType = "mentions" -> "mentions"
      [] depType = "derived_from" -> "derived_from"
      [] depType = "supersedes" -> "supersedes"
      [] depType = "implements" -> "implements"
      [] OTHER -> EdgeTypeBlocks

\* The switch of model.ParseEdgeType.
ParseEdgeType(str) ==
    CASE str = "blocks" -> "blocks"
      [] str = "blocked_by" -> "blocked_by"
      [] str = "parent" -> "parent"
      [] str = "child" -> "child"
      [] str = "waits_for" -> "waits_for"
      [] str = "waited_by" -> "waited_by"
      [] str = "conditional_blocks" -> "conditional_blocks"
      [] str = "relates_to" -> "relates_to"
      [] str = "duplicates" -> "duplicates"
      [] str = "mentions" -> "mentions"
      [] str = "derived_from" -> "derived_from"
      [] str = "supersedes" -> "supersedes"
      [] str = "implements" -> "implements"
      [] OTHER -> EdgeTypeUnknown

\* edgeKey := a + "->" + b + ":" + string(edgeType)
EdgeKey(a, b, edgeType) == a \o "->" \o b \o ":" \o edgeType

\* A lookup that finds every identifier.
InNodeMap_Always(nm, id) == TRUE

\* nodeMap[id]
InNodeMap(nm, id) == id \in nm

\* model.GraphNode{ID: bi.ID, ...}: title, status and priority of the record
\* play no part in the edges.
GraphNode(bi) == [ID |-> bi.ID, Title |-> <<>>, Status |-> "StatusPending"]

\* for _, bi := range bdIssues { graph.AddNode(...) }, from issue k on.
RECURSIVE AddNodes(_, _, _)
AddNodes(g, issues, k) ==
    IF k > Len(issues) THEN g
    ELSE AddNodes(AddNode(g, GraphNode(issues[k])), issues, k + 1)

\* if present && !edgeSet[key] { graph.AddEdge(edge); edgeSet[key] = true }
\* on the pair st of the graph and the edge set.
AddIfNew(st, present, key, edge) ==
    IF present /\ key \notin st.edgeSet
    THEN [graph |-> AddEdge(st.graph, edge),
          edgeSet |-> st.edgeSet \cup {key}]
    ELSE st

\* An edge from the depending issue to the issue it depends on.
DependencyEdge_Reversed(bi, dep, edgeType) ==
    [From |-> bi.ID, To |-> dep.ID, Type |-> edgeType]

\* model.GraphEdge{From: dep.ID, To: bi.ID, Type: edgeType}
DependencyEdge(bi, dep, edgeType) ==
    [From |-> dep.ID, To |-> bi.ID, Type |-> edgeType]

\* for _, dep := range bi.Dependencies, from entry k on.
RECURSIVE Dependencies(_, _, _, _)
Dependencies(st, nm, bi, k) ==
    IF k > Len(bi.Dependencies) THEN st
    ELSE LET dep == bi.Dependencies[k]
             edgeType == mapDepTypeToEdgeType(dep.DepType)
         IN Dependencies(
                AddIfNew(st, InNodeMap(nm, dep.ID),
                         EdgeKey(bi.ID, dep.ID, edgeType),
                         DependencyEdge(bi, dep, edgeType)),
                nm, bi, k + 1)

\* for _, dep := range bi.Dependents, from entry k on.
RECURSIVE Dependents(_, _, _, _)
Dependents(st, nm, bi, k) ==
    IF k > Len(bi.Dependents) THEN st
    ELSE LET dep == bi.Dependents[k]
             edgeType == mapDepTypeToEdgeType(dep.DepType)
         IN Dependents(
                AddIfNew(st, InNodeMap(nm, dep.ID),
                         EdgeKey(dep.ID, bi.ID, edgeType),
                         [From |-> bi.ID, To |-> dep.ID, Type |-> edgeType]),
                nm, bi, k + 1)

\* for _, blockerID := range bi.BlockedBy, from entry k on; present tells
\* whether the loop also looks bi.ID up (the blocked listing does).
RECURSIVE BlockedBy(_, _, _, _, _)
BlockedBy(st, nm, bi, present, k) ==
    IF k > Len(bi.BlockedBy) THEN st
    ELSE LET blockerID == bi.BlockedBy[k]
         IN BlockedBy(
                AddIfNew(st, InNodeMap(nm, blockerID) /\ present,
                         EdgeKey(blockerID, bi.ID, "blocks"),
                         [From |-> blockerID, To |-> bi.ID,
                          Type |-> EdgeTypeBlocks]),
                nm, bi, present, k + 1)

\* for _, bi := range bdIssues { dependencies; dependents; blocked_by },
\* from issue i on.
RECURSIVE IssueEdges(_, _, _, _)
IssueEdges(st, nm, issues, i) ==
    IF i > Len(issues) THEN st
    ELSE LET bi == issues[i]
             st1 == Dependencies(st, nm, bi, 1)
             st2 == Dependents(st1, nm, bi, 1)
             st3 == BlockedBy(st2, nm, bi, TRUE, 1)
         IN IssueEdges(st3, nm, issues, i + 1)

\* for _, bi := range blockedIssues { for _, blockerID := range bi.BlockedBy },
\* from issue i on.
RECURSIVE BlockedEdges(_, _, _, _)
BlockedEdges(st, nm, blocked, i) ==
    IF i > Len(blocked) THEN st
    ELSE BlockedEdges(
             BlockedBy(st, nm, blocked[i], InNodeMap(nm, blocked[i].ID), 1),
             nm, blocked, i + 1)

\* The identifiers of the listed issues.
IssueIdsOf(issues) == {issues[k].ID : k \in 1..Len(issues)}

\* output, err := a.executor.Execute(ctx, a.workDir, "list", "--json") with
\* any outcome, ParseIssueList with any outcome, then the node loop and the
\* edge loop over the parsed issues.
GraphList ==
    /\ gPc = "graph"
    /\ \E out \in {"ok", "malformed"} \cup ExecErrors :
         /\ executed' = [executed EXCEPT !.list = out]
         /\ IF out \in ExecErrors
            THEN /\ graphRet' = [graph |-> "nil", err |-> out]
                 /\ gPc' = "returned"
                 /\ UNCHANGED <<bdIssues, graph, nodeMap, edgeSet>>
            ELSE IF out = "malformed"
            THEN /\ graphRet' = [graph |-> "nil", err |-> "parse"]
                 /\ gPc' = "returned"
                 /\ UNCHANGED <<bdIssues, graph, nodeMap, edgeSet>>
            ELSE \E issues \in ListAnswers :
                   LET nm == IssueIdsOf(issues)
                       st == IssueEdges(
                                 [graph |-> AddNodes(NewGraph, issues, 1),
                                  edgeSet |-> {}], nm, issues, 1)
                   IN /\ bdIssues' = issues
                      /\ graph' = st.graph
                      /\ nodeMap' = nm
                      /\ edgeSet' = st.edgeSet
                      /\ gPc' = "blocked"
                      /\ UNCHANGED graphRet
    /\ UNCHANGED <<sseVars, blockedIssues, httpResp, dotOut>>

\* blockedOutput, err := a.executor.Execute(ctx, a.workDir, "blocked",
\* "--json") with any outcome; if err == nil, ParseBlockedList with any
\* outcome; if parseErr == nil, the loop over the blocked issues; then
\* return &graph, nil.
GraphBlocked ==
    /\ gPc = "blocked"
    /\ \E out \in {"ok", "malformed"} \cup ExecErrors :
         /\ executed' = [executed EXCEPT !.blocked = out]
         /\ IF out = "ok"
            THEN \E blocked \in BlockedAnswers :
                   LET st == BlockedEdges(
                                 [graph |-> graph, edgeSet |-> edgeSet],
                                 nodeMap, blocked, 1)
                   IN /\ blockedIssues' = blocked
                      /\ graph' = st.graph
                      /\ edgeSet' = st.edgeSet
            ELSE UNCHANGED <<blockedIssues, graph, edgeSet>>
    /\ graphRet' = [graph |-> "ptr", err |-> "nil"]
    /\ gPc' = "returned"
    /\ UNCHANGED <<sseVars, bdIssues, nodeMap, httpResp, dotOut>>

\* ------------------------------------------------------ Server.handleGraph
StatusOK == 200
StatusNotFound == 404
StatusInternalServerError == 500
StatusNotImplemented == 501
StatusServiceUnavailable == 503

\* writeJSON(w, status, data): one response with a JSON body.
writeJSON(status) == [status |-> status, code |-> "", body |-> "json"]

\* writeError(w, status, code, message): writeJSON of an ErrorResponse.
writeError(status, code) == [status |-> status, code |-> code, body |-> "error"]

\* The classes of the errors an adapter call returns: those of the executor
\* and the ParseError the adapter wraps a parse failure in.
AdapterErrors == ExecErrors \cup {"parse"}

IsBDNotFoundError(err) == err = "bd_not_found"
IsNotInitializedError(err) == err = "not_initialized"
IsNotFoundError(err) == err = "not_found"
IsParseError(err) == err = "parse"

\* A conversion that answers every error alike.
handleAdapterError_Flat(err) ==
    writeError(StatusInternalServerError, "BD_ERROR")

\* handleAdapterError(w, err): the response it writes.
handleAdapterError(err) ==
    IF IsBDNotFoundError(err)
    THEN writeError(StatusServiceUnavailable, "BD_NOT_FOUND")
    ELSE IF IsNotInitializedError(err)
    THEN writeError(StatusServiceUnavailable, "BEADS_NOT_INIT")
    ELSE IF IsNotFoundError(err)
    THEN writeError(StatusNotFound, "ISSUE_NOT_FOUND")
    ELSE IF IsParseError(err)
    THEN writeError(StatusInternalServerError, "PARSE_ERROR")
    ELSE writeError(StatusInternalServerError, "BD_ERROR")

\* Values of the format query parameter.
Formats == {"", "json", "dot", "svg", "png"}

\* The response of handleGraph for a graph, by format: ToDOT as
\* text/vnd.graphviz, the SVG placeholder, or writeJSON of the graph.
GraphResponse(format) ==
    LET f == IF format = "" THEN "json" ELSE format
    IN CASE f = "dot" -> [status |-> StatusOK, code |-> "", body |-> "dot"]
         [] f = "svg" -> writeError(StatusNotImplemented, "NOT_IMPLEMENTED")
         [] OTHER -> writeJSON(StatusOK)

\* checkBeadsInitialized(w, r): the response it writes when it answers the
\* request itself.
checkBeadsInitialized(init) ==
    IF init = "bd_not_found"
    THEN writeError(StatusServiceUnavailable, "BD_NOT_FOUND")
    ELSE writeError(StatusServiceUnavailable, "BEADS_NOT_INIT")

\* if !s.checkBeadsInitialized(w, r) { return }; then the call of
\* s.adapter.Graph begins.
HandleGraphStart ==
    /\ gPc = "idle"
    /\ \E init \in {"ok", "bd_not_found", "not_initialized"} :
         IF init = "ok"
         THEN /\ gPc' = "graph"
              /\ UNCHANGED httpResp
         ELSE /\ gPc' = "done"
              /\ httpResp' = Append(httpResp, checkBeadsInitialized(init))
    /\ UNCHANGED <<sseVars, executed, bdIssues, blockedIssues, graph, nodeMap,
                   edgeSet, graphRet, dotOut>>

\* graph, err := s.adapter.Graph(ctx) has returned: handleAdapterError and
\* return, or the response in the format of the query (read at the start of
\* the handler and used only here).
HandleGraphRespond ==
    /\ gPc = "returned"
    /\ IF graphRet.err # "nil"
       THEN httpResp' = Append(httpResp, handleAdapterError(graphRet.err))
       ELSE \E format \in Formats :
              httpResp' = Append(httpResp, GraphResponse(format))
    /\ gPc' = "done"
    /\ UNCHANGED <<sseVars, executed, bdIssues, blockedIssues, graph, nodeMap,
                   edgeSet, graphRet, dotOut>>

\* One GET /api/v1/graph request against any answers of the bd CLI.
NextGraph ==
    \/ HandleGraphStart
    \/ GraphList
    \/ GraphBlocked
    \/ HandleGraphRespond

SpecGraph == Init /\ [][NextGraph]_vars

\* ------------------------------------------- NewGraph, AddNode, AddEdge
MaxGraphCalls == 4     \* AddNode and AddEdge calls on one graph

\* Calls made on the graph so far.
GraphCalls == Len(graph.Nodes) + Len(graph.Edges)

\* g.AddNode(node) by any caller, on the graph as it is.
AddNodeCall(node) ==
    /\ gPc = "idle"
    /\ GraphCalls < MaxGraphCalls
    /\ dotOut = <<>>
    /\ graph' = AddNode(graph, node)
    /\ UNCHANGED <<sseVars, gPc, executed, bdIssues, blockedIssues, nodeMap,
                   edgeSet, graphRet, httpResp, dotOut>>

\* g.AddEdge(edge) by any caller, on the graph as it is.
AddEdgeCall(edge) ==
    /\ gPc = "idle"
    /\ GraphCalls < MaxGraphCalls
    /\ dotOut = <<>>
    /\ graph' = AddEdge(graph, edge)
    /\ UNCHANGED <<sseVars, gPc, executed, bdIssues, blockedIssues, nodeMap,
                   edgeSet, graphRet, httpResp, dotOut>>

\* Any sequence of AddNode and AddEdge calls on a graph made by NewGraph;
\* the calls check nothing, so nodes repeat and edges name any identifier.
NextModelGraph ==
    \/ \E id \in IssueIds : AddNodeCall(GraphNode([ID |-> id]))
    \/ \E from, to \in RefIds, type \in {EdgeTypeBlocks, EdgeTypeUnknown} :
         AddEdgeCall([From |-> from, To |-> to, Type |-> type])

SpecModelGraph == Init /\ [][NextModelGraph]_vars

\* ------------------------------------------------------------ Graph.ToDOT
MaxTitleLen == 3       \* characters of a node title

\* A string is the sequence of its characters; text that holds neither a
\* quote nor a backslash is one element.
Quote == "\""
Backslash == "\\"
TitleChars == {"a", Quote, Backslash}
Titles == SeqsUpTo(TitleChars, MaxTitleLen)

\* The keys of statusColors and a status that is none of them.
Statuses ==
    {"StatusPending", "StatusInProgress", "StatusDone", "StatusBlocked", ""}

\* color := statusColors[node.Status]; if color == "" { color = "#6b7280" }
StatusColor(status) ==
    CASE status = "StatusPending" -> "#3b82f6"
      [] status = "StatusInProgress" -> "#eab308"
      [] status = "StatusDone" -> "#22c55e"
      [] status = "StatusBlocked" -> "#ef4444"
      [] OTHER -> "#6b7280"

\* strings.ReplaceAll(str, old, new) for a one-character old.
RECURSIVE ReplaceAll(_, _, _)
ReplaceAll(str, old, new) ==
    IF str = <<>> THEN <<>>
    ELSE (IF Head(str) = old THEN new ELSE <<Head(str)>>)
             \o ReplaceAll(Tail(str), old, new)

\* fmt.Sprintf("  \"%s\" [label=\"%s\", fillcolor=\"%s\",
\* style=\"filled,rounded\"];\n", node.ID, label, color)
NodeLine(id, label, color) ==
    <<"  ", Quote, id, Quote, " [label=", Quote>> \o label
        \o <<Quote, ", fillcolor=", Quote, color, Quote, ", style=", Quote,
             "filled,rounded", Quote, "];\n">>

\* for _, node := range g.Nodes: the line written for node k and the rest.
RECURSIVE NodeLines(_, _)
NodeLines(nodes, k) ==
    IF k > Len(nodes) THEN <<>>
    ELSE LET node == nodes[k]
             label == ReplaceAll(node.Title, Quote, <<Backslash, Quote>>)
         IN <<NodeLine(node.ID, label, StatusColor(node.Status))>>
                \o NodeLines(nodes, k + 1)

\* g.ToDOT() on the graph as it is: its node lines.
ToDOT ==
    /\ gPc = "idle"
    /\ dotOut = <<>>
    /\ graph.Nodes # <<>>
    /\ dotOut' = NodeLines(graph.Nodes, 1)
    /\ UNCHANGED <<sseVars, graphVars>>

\* A graph of one node with any title and status, exported by ToDOT.
NextDOT ==
    \/ \E title \in Titles, status \in Statuses :
         /\ graph.Nodes = <<>>
         /\ AddNodeCall([ID |-> "A", Title |-> title, Status |-> status])
    \/ ToDOT

SpecDOT == Init /\ [][NextDOT]_vars

\* ------------------------------------------------------ history operators
Range(q) == {q[i] : i \in 1..Len(q)}

\* m has been accepted into b.broadcast and the loop has fanned it out.
Fanned(m) ==
    /\ \E i \in 1..Len(accepted) : accepted[i].msg = m
    /\ m \notin Range(broadcast)

\* The position of m in the order of acceptance into b.broadcast.
Pos(m) == CHOOSE i \in 1..Len(accepted) : accepted[i].msg = m

\* ------------------------------------------------------------------ C1
\* C1: no message is ever placed in a subscriber channel after the channel
\* has been closed (no send on a closed channel), nor after an Unsubscribe
\* call for it has returned.
C1_NoSendAfterClose ==
    [][/\ panicked' # "send on closed channel"
       /\ \A c \in Chans :
            (chanClosed[c] \/ c \in unsubDone) => sent'[c] = sent[c]]_vars

\* A subscriber received a message, was closed, and a later message was
\* fanned out without it.
C1_Witness ==
    \E c \in Handlers : \E i, j \in 1..Len(accepted) :
        /\ chanClosed[c]
        /\ j < i
        /\ accepted[j].msg \in Range(sent[c])
        /\ c \notin accepted[i].live
        /\ Fanned(accepted[i].msg)
        /\ accepted[i].msg \notin Range(sent[c])
\* ------------------------------------------------------------------ C2
\* C2 as stated: once the loop has fanned out a message, every subscriber
\* that was in the live set when the message was accepted has received that
\* message or has been removed from the live set.
C2_DeliveredOrRemoved ==
    \A i \in 1..Len(accepted) :
        Fanned(accepted[i].msg) =>
            \A c \in accepted[i].live :
                \/ accepted[i].msg \in Range(sent[c])
                \/ c \notin clients

\* The messages placed in c before m was accepted fill a client buffer.
FullBefore(c, m) ==
    Cardinality({k \in 1..Len(sent[c]) : Pos(sent[c][k]) < Pos(m)})
        >= ClientBufCap

\* C2 amended: once the loop has fanned out a message, every subscriber that
\* was in the live set when the message was accepted has received that
\* message, or has been removed from the live set, or had the message
\* dropped because its buffer was full; a message is dropped for a subscriber
\* only after a buffer-full of earlier messages was placed in its channel.
C2_DeliveredRemovedOrDropped ==
    \A i \in 1..Len(accepted) :
        Fanned(accepted[i].msg) =>
            \A c \in accepted[i].live :
                \/ accepted[i].msg \in Range(sent[c])
                \/ c \notin clients
                \/ /\ accepted[i].msg \in dropped[c]
                   /\ FullBefore(c, accepted[i].msg)

\* A message was dropped for a subscriber that is still registered and that
\* received the messages before it.
C2_Witness ==
    \E c \in clients : \E i \in 1..Len(accepted) :
        /\ c \in accepted[i].live
        /\ accepted[i].msg \in dropped[c]
        /\ Len(sent[c]) = ClientBufCap

\* ------------------------------------------------------------------ C3
\* The chunks request h has written after the connected event.
Written(h) == IF resp[h] = <<>> THEN <<>> ELSE Tail(resp[h])

\* C3: the messages placed in a subscriber channel are accepted messages in
\* the order of their acceptance into b.broadcast, none twice, and the
\* handler writes them in the order they were placed.
C3_OrderPreserved ==
    /\ \A c \in Chans :
         /\ \A k \in 1..Len(sent[c]) :
              \E i \in 1..Len(accepted) : accepted[i].msg = sent[c][k]
         /\ \A k, l \in 1..Len(sent[c]) :
              k < l => Pos(sent[c][k]) < Pos(sent[c][l])
    /\ \A h \in Handlers :
         hPc[h] # "failed" => Written(h) \o chanBuf[h] = sent[h]

\* A subscriber that missed the first accepted message holds the second and
\* the third in order, and has written one of them.
C3_Witness ==
    \E h \in Handlers :
        /\ Len(accepted) = 3
        /\ Len(sent[h]) = 2
        /\ Pos(sent[h][1]) = 2
        /\ Pos(sent[h][2]) = 3
        /\ Len(resp[h]) = 2

\* ------------------------------------------------------------------ C4
\* C4: in the step in which the loop fans out a message, the loop returns to
\* its select without panicking; a live subscriber whose buffer is full keeps
\* its buffered messages, stays registered and open, and every live
\* subscriber whose buffer has room gets the message appended.
C4_DropOnFull ==
    [][Len(broadcast') < Len(broadcast) =>
         /\ loopPc' = "select"
         /\ panicked' = "none"
         /\ \A c \in clients :
              IF Len(chanBuf[c]) >= ClientBufCap
              THEN /\ chanBuf'[c] = chanBuf[c]
                   /\ c \in clients'
                   /\ chanClosed'[c] = chanClosed[c]
              ELSE chanBuf'[c] = Append(chanBuf[c], broadcast[1])]_vars

\* A message was dropped for one live subscriber, whose buffer is still full,
\* and delivered to another.
C4_Witness ==
    \E c, d \in clients : \E i \in 1..Len(accepted) :
        /\ c # d
        /\ accepted[i].msg \in dropped[c]
        /\ Len(chanBuf[c]) = ClientBufCap
        /\ accepted[i].msg \in Range(sent[d])

\* ------------------------------------------------------------------ C5
\* C5: once the loop has fanned out a message that was accepted after a
\* Subscribe call returned, that subscriber has the message placed in its
\* channel, unless its buffer was full or it has been removed (closed): the
\* loop never fans such a message out before adding the subscriber.
C5_VisibleAfterSubscribe ==
    \A i \in 1..Len(accepted) :
        Fanned(accepted[i].msg) =>
            \A c \in accepted[i].returned :
                \/ accepted[i].msg \in Range(sent[c])
                \/ accepted[i].msg \in dropped[c]
                \/ chanClosed[c]

\* A message accepted after Subscribe returned but before the loop had added
\* the subscriber was delivered to it.
C5_Witness ==
    \E c \in Handlers : \E i \in 1..Len(accepted) :
        /\ c \in accepted[i].returned
        /\ c \notin accepted[i].live
        /\ accepted[i].msg \in Range(sent[c])
\* ------------------------------------------------------------------ C6
\* C6: an Unsubscribe call on an endpoint that is not registered never
\* panics and never deadlocks: while such a call waits on b.unregister the
\* loop is there to receive it.
C6_UnsubscribeUnregistered ==
    /\ panicked = "none"
    /\ (xPending # NoChan /\ xPending \notin clients) => loopPc # "exited"

\* The step in which the loop handles an unregistration of a channel that is
\* not in the live set changes neither the live set nor any channel.
UnregisterOfUnregistered ==
    [][(loopPc = "unregister" /\ loopArg \notin clients /\ loopPc' # loopPc) =>
         /\ clients' = clients
         /\ chanClosed' = chanClosed
         /\ panicked' = panicked
         /\ loopPc' = "select"]_vars

\* ------------------------------------------------------------------ C7
\* The channel of handler h has been added to the live set at some time.
EverRegistered(h) ==
    SubscribeReturned(h) /\ ~(loopPc = "register" /\ loopArg = h)

\* C7: once Stop has returned and the loop has exited, the live set is empty
\* and every subscriber channel that was ever registered is closed.
C7_StopClosesAll ==
    (stopPc = "returned" /\ loopPc = "exited") =>
        /\ clients = {}
        /\ \A h \in Handlers : EverRegistered(h) => chanClosed[h]

\* ------------------------------------------------------------------ C8
\* C8: a handler that has left its loop (context cancelled or channel closed)
\* always gets its Unsubscribe through: it never waits on b.unregister with
\* no loop left to receive, and once it has ended and the loop is idle its
\* subscriber is not in the live set.
C8_HandlerTerminates ==
    \A h \in Handlers :
        /\ hPc[h] = "unsubscribing" => loopPc # "exited"
        /\ (hPc[h] = "done" /\ loopPc = "select") => h \notin clients

\* ------------------------------------------------------------------ C9
\* C9: whatever a handler has written starts with the connected event,
\* written after its Subscribe returned, followed only by broker messages;
\* without streaming support the response is the error alone and the handler
\* never subscribes.
C9_ConnectedFirst ==
    \A h \in Handlers :
        /\ hPc[h] \in {"listening", "unsubscribing", "done"} =>
             /\ resp[h] # <<>>
             /\ resp[h][1] = ConnectedChunk
             /\ \A k \in 2..Len(resp[h]) :
                  resp[h][k].type \in {"issue_created", "heartbeat"}
        /\ hPc[h] \in {"init", "subscribing", "subscribed"} => resp[h] = <<>>
        /\ (resp[h] # <<>> /\ hPc[h] # "failed") => SubscribeReturned(h)
        /\ hPc[h] = "failed" =>
             /\ resp[h] = <<ErrorChunk>>
             /\ h \notin clients
             /\ loopArg # h
             /\ ~chanClosed[h]
             /\ sent[h] = <<>>

\* One handler has written the connected event and then a message while
\* another has a message buffered before it has written the connected event.
C9_Witness ==
    \E h, g \in Handlers :
        /\ Len(resp[h]) = 2
        /\ resp[h][1] = ConnectedChunk
        /\ hPc[g] = "subscribed"
        /\ chanBuf[g] # <<>>
\* ----------------------------------------------------------------- C10
\* C10 as stated: with no other broadcasts, the heartbeat of every tick is
\* placed in the channel of each subscriber that was registered at the tick
\* and stays registered.
C10_EveryTickDelivered ==
    \A i \in 1..Len(accepted) :
        (accepted[i].msg.type = "heartbeat" /\ Fanned(accepted[i].msg)) =>
            \A c \in accepted[i].live \cap clients :
                accepted[i].msg \in Range(sent[c])

\* Some heartbeat has been placed in the channel of c.
GotHeartbeat(c) == \E k \in 1..Len(sent[c]) : sent[c][k].type = "heartbeat"

\* C10 amended: with no other broadcasts, the heartbeat of every tick is
\* placed in the channel of each subscriber that stays registered unless its
\* buffer is full of earlier heartbeats, and a subscriber registered at a
\* tick eventually has a heartbeat placed in its channel or is unregistered.
C10_HeartbeatReceived ==
    /\ [](\A i \in 1..Len(accepted) :
            (accepted[i].msg.type = "heartbeat" /\ Fanned(accepted[i].msg)) =>
                \A c \in accepted[i].live \cap clients :
                    \/ accepted[i].msg \in Range(sent[c])
                    \/ /\ accepted[i].msg \in dropped[c]
                       /\ FullBefore(c, accepted[i].msg))
    /\ \A c \in Handlers :
         (loopPc = "heartbeat" /\ c \in clients)
             ~> (c \notin clients \/ GotHeartbeat(c))

\* After the last tick a registered subscriber holds a full buffer of
\* heartbeats and the latest heartbeat was dropped for it.
C10_Witness ==
    \E c \in clients :
        /\ nTicks = MaxTicks
        /\ Len(chanBuf[c]) = ClientBufCap
        /\ GotHeartbeat(c)
        /\ HeartbeatMsg(nTicks) \in dropped[c]

\* ----------------------------------------------------------------- C11
\* C11: Broadcast returns nothing to its caller and does not panic; a call
\* whose payload cannot be serialized logs the error and leaves the broadcast
\* queue, the live set and every subscriber buffer as they were; a call whose
\* payload can be serialized appends exactly one message to the queue and
\* touches neither the live set nor a subscriber buffer.
C11_BroadcastNeverFails ==
    [][/\ marshalErrs' # marshalErrs =>
            /\ broadcast' = broadcast
            /\ clients' = clients
            /\ chanBuf' = chanBuf
            /\ chanClosed' = chanClosed
            /\ panicked' = "none"
       /\ nBroadcasts' # nBroadcasts =>
            /\ broadcast' = Append(broadcast, EventMsg(nBroadcasts'))
            /\ Len(broadcast') = Len(broadcast) + 1
            /\ clients' = clients
            /\ chanBuf' = chanBuf
            /\ chanClosed' = chanClosed
            /\ panicked' = "none"]_vars

\* One event was enqueued and delivered to a subscriber, and another was
\* dropped for a marshal error while that subscriber was registered.
C11_Witness ==
    /\ marshalErrs = 1
    /\ nBroadcasts = 1
    /\ broadcast = <<>>
    /\ \E c \in clients : chanBuf[c] = <<EventMsg(1)>>

\* ----------------------------------------------------------------- C12
\* C12: the graph Adapter.Graph builds never holds two edges with the same
\* (from, to, type) triple, whichever sources asserted the relationship.
C12_NoDuplicateEdges ==
    \A i, j \in 1..Len(graph.Edges) :
        i # j => graph.Edges[i] # graph.Edges[j]

\* ------------------------------------------- what the bd answers assert
\* The identifiers of the nodes of g.
NodeIds(g) == {g.Nodes[k].ID : k \in 1..Len(g.Nodes)}

Edge(from, to, type) == [From |-> from, To |-> to, Type |-> type]

\* One relationship entry of the parsed answers: entry k of list src of
\* issue i, asserting that from stands in relation depType to to, with the
\* key under which the loop of that list files it.
Entry(src, i, k, from, to, depType, keyFrom, keyTo) ==
    [src |-> src, i |-> i, k |-> k, depType |-> depType,
     edge |-> Edge(from, to, mapDepTypeToEdgeType(depType)),
     key |-> EdgeKey(keyFrom, keyTo, mapDepTypeToEdgeType(depType))]

\* The entries of the parsed answers with the edge each stands for: a
\* dependency of X on Y is Y -> X, a dependent D of X is X -> D, a blocker K
\* of X is K -> X of type blocks.
DependencyEntries ==
    UNION {{Entry("dependencies", i, k,
                  bdIssues[i].Dependencies[k].ID, bdIssues[i].ID,
                  bdIssues[i].Dependencies[k].DepType,
                  bdIssues[i].ID, bdIssues[i].Dependencies[k].ID) :
            k \in 1..Len(bdIssues[i].Dependencies)} :
           i \in 1..Len(bdIssues)}

DependentEntries ==
    UNION {{Entry("dependents", i, k,
                  bdIssues[i].ID, bdIssues[i].Dependents[k].ID,
                  bdIssues[i].Dependents[k].DepType,
                  bdIssues[i].Dependents[k].ID, bdIssues[i].ID) :
            k \in 1..Len(bdIssues[i].Dependents)} :
           i \in 1..Len(bdIssues)}

BlockedByEntries ==
    UNION {{Entry("blocked_by", i, k,
                  bdIssues[i].BlockedBy[k], bdIssues[i].ID, "blocks",
                  bdIssues[i].BlockedBy[k], bdIssues[i].ID) :
            k \in 1..Len(bdIssues[i].BlockedBy)} :
           i \in 1..Len(bdIssues)}

BlockedListEntries ==
    UNION {{Entry("blocked", i, k,
                  blockedIssues[i].BlockedBy[k], blockedIssues[i].ID, "blocks",
                  blockedIssues[i].BlockedBy[k], blockedIssues[i].ID) :
            k \in 1..Len(blockedIssues[i].BlockedBy)} :
           i \in 1..Len(blockedIssues)}

Entries ==
    DependencyEntries \cup DependentEntries \cup BlockedByEntries
        \cup BlockedListEntries

\* Both endpoints of the entry's edge are identifiers of listed issues.
Grounded(e) == e.edge.From \in IssueIdsOf(bdIssues)
                   /\ e.edge.To \in IssueIdsOf(bdIssues)

\* Entry e is a listed relationship whose key no other entry files under.
Alone(e) == Grounded(e) /\ \A o \in Entries : o.key = e.key => o = e

\* ----------------------------------------------------------------- C13
\* C13: both endpoints of every edge of the graph are identifiers of its
\* nodes; an entry of any of the four sources that references an identifier
\* no listed issue has adds no edge and no count (the edges are edges of
\* entries with both endpoints listed, at most one per such entry, and
\* edge_count is their number); and once the listing is fetched and parsed
\* Graph raises no error.
C13_NoDanglingEdges ==
    /\ \A j \in 1..Len(graph.Edges) :
         /\ graph.Edges[j].From \in NodeIds(graph)
         /\ graph.Edges[j].To \in NodeIds(graph)
         /\ \E e \in Entries : Grounded(e) /\ e.edge = graph.Edges[j]
    /\ Len(graph.Edges) <= Cardinality({e \in Entries : Grounded(e)})
    /\ graph.Stats.EdgeCount = Len(graph.Edges)
    /\ executed.list = "ok" => graphRet.err = "nil"
    /\ gPc = "returned" /\ executed.list = "ok" => graphRet.graph = "ptr"

\* Graph has returned a graph with one edge where the issue list had an
\* entry with an unlisted identifier and the blocked listing had another.
C13_Witness ==
    /\ gPc = "returned"
    /\ graphRet = [graph |-> "ptr", err |-> "nil"]
    /\ \E e \in Entries \ BlockedListEntries : ~Grounded(e)
    /\ \E e \in BlockedListEntries : ~Grounded(e)
    /\ Len(graph.Edges) = 1
    /\ graph.Stats.EdgeCount = 1

\* ----------------------------------------------------------------- C14
\* C14: after any sequence of AddNode and AddEdge calls on a graph made by
\* NewGraph, Stats.NodeCount is the number of nodes and Stats.EdgeCount the
\* number of edges; an AddNode call changes neither Edges nor EdgeCount and
\* an AddEdge call changes neither Nodes nor NodeCount.
C14_StatsMatch ==
    /\ [](/\ graph.Stats.NodeCount = Len(graph.Nodes)
          /\ graph.Stats.EdgeCount = Len(graph.Edges))
    /\ [][/\ graph'.Nodes # graph.Nodes =>
               /\ graph'.Edges = graph.Edges
               /\ graph'.Stats.EdgeCount = graph.Stats.EdgeCount
               /\ Len(graph'.Nodes) = Len(graph.Nodes) + 1
          /\ graph'.Edges # graph.Edges =>
               /\ graph'.Nodes = graph.Nodes
               /\ graph'.Stats.NodeCount = graph.Stats.NodeCount
               /\ Len(graph'.Edges) = Len(graph.Edges) + 1]_vars

\* Two nodes and two edges were added, an edge before the second node.
C14_Witness ==
    /\ gPc = "idle"
    /\ graph.Stats.NodeCount = 2
    /\ graph.Stats.EdgeCount = 2
    /\ Len(graph.Nodes) = 2
    /\ Len(graph.Edges) = 2

\* ----------------------------------------------------------------- C15
\* C15: deduplication discards only identical triples: in the graph that
\* Graph returns, every relationship asserted by any of the four sources with
\* both endpoints listed is an edge, whatever edges came before it.
C15_OnlyIdenticalDiscarded ==
    (gPc = "returned" /\ graphRet.graph = "ptr") =>
        \A e \in Entries : Grounded(e) => e.edge \in Range(graph.Edges)

\* ----------------------------------------------------------------- C16
\* The strings mapDepTypeToEdgeType recognizes, and strings it does not.
RecognizedDepTypes == (EdgeTypes \ {EdgeTypeUnknown}) \cup {"parent-child"}
OtherDepTypes == {"unknown", "", "Blocks", "depends_on", "parent_child"}

\* C16: every recognized relationship-type string maps to its own edge type
\* (the type of that name, as ParseEdgeType reads it; parent-child to
\* parent), every other string maps to blocks; no edge of the built graph
\* has type unknown; a dependency or dependent entry with an unrecognized
\* type raises no error and, when listed and not deduplicated, is an edge of
\* type blocks.
C16_FallbackToBlocks ==
    /\ \A str \in EdgeTypes \ {EdgeTypeUnknown} :
         /\ mapDepTypeToEdgeType(str) = str
         /\ mapDepTypeToEdgeType(str) = ParseEdgeType(str)
    /\ mapDepTypeToEdgeType("parent-child") = "parent"
    /\ \A str \in OtherDepTypes : mapDepTypeToEdgeType(str) = EdgeTypeBlocks
    /\ \A j \in 1..Len(graph.Edges) :
         graph.Edges[j].Type \in EdgeTypes \ {EdgeTypeUnknown}
    /\ \A e \in DependencyEntries \cup DependentEntries :
         e.depType \notin RecognizedDepTypes =>
             /\ graphRet.err = "nil"
             /\ e.edge.Type = EdgeTypeBlocks
             /\ Alone(e) => e.edge \in Range(graph.Edges)

\* Graph has returned a graph with an edge of type blocks made from an entry
\* of unrecognized type and an edge of type parent made from parent-child.
C16_Witness ==
    /\ gPc = "returned"
    /\ graphRet = [graph |-> "ptr", err |-> "nil"]
    /\ \E e, o \in DependencyEntries \cup DependentEntries :
         /\ e.depType = "unknown"
         /\ e.edge \in Range(graph.Edges)
         /\ e.edge.Type = EdgeTypeBlocks
         /\ o.depType = "parent-child"
         /\ o.edge \in Range(graph.Edges)
         /\ o.edge.Type = "parent"

\* ----------------------------------------------------------------- C17
\* The answer with issues A and B whose only entry is the dependency of A on
\* B of type blocks.
ScenarioAB ==
    <<[ID |-> "A", Dependencies |-> <<[ID |-> "B", DepType |-> "blocks"]>>,
       Dependents |-> <<>>, BlockedBy |-> <<>>],
      [ID |-> "B", Dependencies |-> <<>>, Dependents |-> <<>>,
       BlockedBy |-> <<>>]>>

\* C17: every edge of the graph is the edge of an entry in the direction of
\* its source (a dependency of X on Y is Y -> X, a dependent D of X is
\* X -> D, a blocker K of X is K -> X of type blocks), and every listed entry
\* that is not deduplicated is that edge; the answer with A, B and the one
\* dependency of A on B of type blocks gives the nodes A, B, the single edge
\* (B, A, blocks), node_count 2 and edge_count 1.
C17_EdgeDirection ==
    /\ \A j \in 1..Len(graph.Edges) :
         \E e \in Entries : e.edge = graph.Edges[j]
    /\ \A e \in Entries : Alone(e) => e.edge \in Range(graph.Edges)
    /\ (bdIssues = ScenarioAB /\ blockedIssues = <<>>) =>
         /\ [k \in 1..Len(graph.Nodes) |-> graph.Nodes[k].ID] = <<"A", "B">>
         /\ graph.Edges = <<Edge("B", "A", EdgeTypeBlocks)>>
         /\ graph.Stats.NodeCount = 2
         /\ graph.Stats.EdgeCount = 1

\* Graph has returned the graph of the scenario.
C17_Witness ==
    /\ gPc = "returned"
    /\ graphRet = [graph |-> "ptr", err |-> "nil"]
    /\ bdIssues = ScenarioAB
    /\ blockedIssues = <<>>
    /\ graph.Edges = <<Edge("B", "A", EdgeTypeBlocks)>>

\* ----------------------------------------------------------------- C18
\* The position at which a DOT scanner ends the quoted string whose text
\* starts at position i of line: the first quote it does not take as part of
\* an escape (backslash-quote and backslash-backslash are read in pairs), or
\* 0 when the string does not end on the line.
RECURSIVE QuotedEnd(_, _)
QuotedEnd(line, i) ==
    IF i > Len(line) THEN 0
    ELSE IF line[i] = Quote THEN i
    ELSE IF line[i] = Backslash /\ i < Len(line)
                /\ line[i + 1] \in {Quote, Backslash}
    THEN QuotedEnd(line, i + 2)
    ELSE QuotedEnd(line, i + 1)

\* The label text starts after the six elements that precede it; nine
\* elements follow the quote that closes it.
LabelStart == 7
ClosingQuote(line) == Len(line) - 9

\* C18: in every node line ToDOT writes, the quoted label ends at the closing
\* quote of the format: no unescaped quote comes before it and the closing
\* quote itself is not escaped, whatever the title.
C18_LabelQuoted ==
    \A k \in 1..Len(dotOut) :
        QuotedEnd(dotOut[k], LabelStart) = ClosingQuote(dotOut[k])

C20_FetchErrorsPropagate ==
    (/\ gPc = "returned"
     /\ \/ executed.list \in ExecErrors
        \/ executed.list = "malformed"
        \/ executed.blocked \in ExecErrors) =>
        /\ graphRet.err # "nil"
        /\ graphRet.graph = "nil"

\* ----------------------------------------------------------------- C21
\* C21: every step that changes b.clients is a step of the Start goroutine
\* (its register or its unregister case); no step of a caller of Subscribe,
\* Unsubscribe, Broadcast or Stop changes it.
C21_OnlyLoopMutates ==
    [][clients' # clients =>
         /\ loopPc \in {"register", "unregister"}
         /\ loopPc' = "select"
         /\ stopPc' = stopPc]_vars

\* ----------------------------------------------------------------- C22
\* The identifiers of the nodes of the graph under construction.
NodeIdSeq == [k \in 1..Len(graph.Nodes) |-> graph.Nodes[k].ID]

\* C22: no two nodes of the graph Graph builds have the same identifier, and
\* node_count is the number of distinct identifiers, whatever the listing
\* (also one that repeats an identifier).
C22_UniqueNodeIds ==
    /\ \A i, j \in 1..Len(graph.Nodes) :
         graph.Nodes[i].ID = graph.Nodes[j].ID => i = j
    /\ graph.Stats.NodeCount = Cardinality(Range(NodeIdSeq))

\* ----------------------------------------------------------------- C23
\* The Start goroutine is inside sendHeartbeat, waiting to send on a full
\* b.broadcast.
LoopBlocked == loopPc = "heartbeat" /\ Len(broadcast) >= BroadcastCap

\* C23: while Stop has not been called the loop is never left waiting on its
\* own send: when it has taken a tick, b.broadcast has room for the
\* heartbeat, so the loop returns to its select.
C23_LoopNeverBlocks == stopPc = "idle" => ~LoopBlocked

\* Once the loop waits on a full b.broadcast it waits forever: no step of any
\* goroutine takes a message out of the queue.
BlockedForever == [][LoopBlocked => LoopBlocked']_vars

\* ----------------------------------------------------------------- C24
\* C24: close is called at most once on every subscriber channel, and no
\* close panics, under every interleaving of Stop with the unregistrations
\* the loop handles; a channel that is closed is not in the live set.
C24_ClosedAtMostOnce ==
    /\ panicked # "close of closed channel"
    /\ \A c \in Chans :
         /\ Len(closes[c]) <= 1
         /\ chanClosed[c] <=> Len(closes[c]) = 1
         /\ chanClosed[c] => c \notin clients

\* Stop closed the channel of a handler, and afterwards the loop handled the
\* handler's own Unsubscribe and two more Unsubscribe calls for that channel
\* and is back at its select.
C24_Witness ==
    \E h \in Handlers :
        /\ closes[h] = <<"Stop">>
        /\ stopPc = "returned"
        /\ hPc[h] = "done"
        /\ nExtra = MaxExtraUnsub
        /\ xPending = NoChan
        /\ unsubDone = {h}
        /\ loopPc = "select"
        /\ loopArg = NoChan

=============================================================================
